---- MODULE Spec2Model ----
(***************************************************************************)
(* AQI bulletin pipeline: the bulletin downloader (aqi_pdf_downloader.py), *)
(* the text extraction engine and range orchestrator                       *)
(* (complete_aqi_extractor_fixed.py) and the HTTP facade (get_api.py).     *)
(*                                                                         *)
(* Text is a sequence of one-character strings, so that substring search,  *)
(* the regular expression and the removal of spaces are computed on        *)
(* characters as the Python code computes them.                            *)
(***************************************************************************)
EXTENDS Integers, Sequences, FiniteSets, TLC

VARIABLES
    \* ---- find_data_in_text, applied to one page text (SpecText) ----
    text,          \* the page text handed to find_data_in_text
    city,          \* the target city
    fd_pc,         \* "ready" | "done"
    fd_result,     \* the returned data dict, or None
    fd_log,        \* what the call printed: one entry per window analysed
    \* ---- the service pipeline (Spec) ----
    pc,            \* position of the request handler
    request,       \* the request JSON: start_date, end_date, city
    response,      \* the last HTTP response
    output_dir,    \* the cache directory: file key -> file content
    dates,         \* download_range: the list get_date_range returned
    dl_i,          \* download_range: index of the next date to download
    successful,    \* download_range: counter
    failed,        \* download_range: counter
    dl_last,       \* the last download_bulletin call: key, return, GETs sent
    current_date,  \* process_date_range: loop variable (a datetime)
    end_dt,        \* process_date_range: parsed end date
    data_list,     \* process_date_range: accumulated records
    scanned        \* process_date_range: file keys handed to process_pdf

textVars == <<text, city, fd_pc, fd_result, fd_log>>
pipeVars == <<pc, request, response, output_dir, dates, dl_i, successful,
              failed, dl_last, current_date, end_dt, data_list, scanned>>
vars == <<text, city, fd_pc, fd_result, fd_log, pc, request, response,
          output_dir, dates, dl_i, successful, failed, dl_last, current_date,
          end_dt, data_list, scanned>>

\* Python's None, and a key a dict does not hold
None == <<>>

(***************************************************************************)
(* Python str operations                                                   *)
(***************************************************************************)
LowerMap ==
    ("A" :> "a") @@ ("B" :> "b") @@ ("C" :> "c") @@ ("D" :> "d") @@
    ("E" :> "e") @@ ("F" :> "f") @@ ("G" :> "g") @@ ("H" :> "h") @@
    ("I" :> "i") @@ ("J" :> "j") @@ ("K" :> "k") @@ ("L" :> "l") @@
    ("M" :> "m") @@ ("N" :> "n") @@ ("O" :> "o") @@ ("P" :> "p") @@
    ("Q" :> "q") @@ ("R" :> "r") @@ ("S" :> "s") @@ ("T" :> "t") @@
    ("U" :> "u") @@ ("V" :> "v") @@ ("W" :> "w") @@ ("X" :> "x") @@
    ("Y" :> "y") @@ ("Z" :> "z")

DigitVal ==
    ("0" :> 0) @@ ("1" :> 1) @@ ("2" :> 2) @@ ("3" :> 3) @@ ("4" :> 4) @@
    ("5" :> 5) @@ ("6" :> 6) @@ ("7" :> 7) @@ ("8" :> 8) @@ ("9" :> 9)

UpperLetters == DOMAIN LowerMap

LowerLetters == {LowerMap[c] : c \in UpperLetters}

Whitespace == {" ", "\n", "\t", "\r"}

IsDigit(c) == c \in DOMAIN DigitVal

\* \w of the re module: letters, digits and the underscore
IsWordChar(c) == IsDigit(c) \/ c \in UpperLetters \/ c \in LowerLetters \/ c = "_"

\* str.lower()
Lower(s) == [k \in 1..Len(s) |-> IF s[k] \in UpperLetters THEN LowerMap[s[k]] ELSE s[k]]

\* sub in s
Contains(s, sub) ==
    \E p \in 0..(Len(s) - Len(sub)) : SubSeq(s, p + 1, p + Len(sub)) = sub

RECURSIVE Split(_)
\* str.split('\n')
Split(s) ==
    IF \A k \in 1..Len(s) : s[k] # "\n"
    THEN <<s>>
    ELSE LET p == CHOOSE k \in 1..Len(s) :
                      s[k] = "\n" /\ \A j \in 1..(k - 1) : s[j] # "\n"
         IN <<SubSeq(s, 1, p - 1)>> \o Split(SubSeq(s, p + 1, Len(s)))

\* str.strip()
Strip(s) ==
    LET keep == {k \in 1..Len(s) : s[k] \notin Whitespace}
    IN IF keep = {} THEN <<>>
       ELSE LET a == CHOOSE k \in keep : \A j \in keep : k <= j
                b == CHOOSE k \in keep : \A j \in keep : k >= j
            IN SubSeq(s, a, b)

RECURSIVE Join(_)
\* ' '.join(parts)
Join(parts) ==
    IF Len(parts) = 0 THEN <<>>
    ELSE IF Len(parts) = 1 THEN parts[1]
    ELSE parts[1] \o <<" ">> \o Join(Tail(parts))

RECURSIVE RemoveSpaces(_)
\* str.replace(' ', '')
RemoveSpaces(s) ==
    IF Len(s) = 0 THEN <<>>
    ELSE IF Head(s) = " " THEN RemoveSpaces(Tail(s))
    ELSE <<Head(s)>> \o RemoveSpaces(Tail(s))

RECURSIVE IntOf(_)
\* int(value) of a run of decimal digits
IntOf(ds) ==
    IF Len(ds) = 0 THEN 0
    ELSE 10 * IntOf(SubSeq(ds, 1, Len(ds) - 1)) + DigitVal[ds[Len(ds)]]

(***************************************************************************)
(* AQIDataExtractor.__init__: aqi_colors, in insertion order               *)
(***************************************************************************)
Good == <<"G", "o", "o", "d">>
Satisfactory == <<"S", "a", "t", "i", "s", "f", "a", "c", "t", "o", "r", "y">>
Moderate == <<"M", "o", "d", "e", "r", "a", "t", "e">>
Poor == <<"P", "o", "o", "r">>
VeryPoor == <<"V", "e", "r", "y", " ", "P", "o", "o", "r">>
Severe == <<"S", "e", "v", "e", "r", "e">>

aqi_colors ==
    << [category |-> Good,         color |-> <<"0", "0", "F", "F", "0", "0">>],
       [category |-> Satisfactory, color |-> <<"9", "0", "E", "E", "9", "0">>],
       [category |-> Moderate,     color |-> <<"F", "F", "F", "F", "0", "0">>],
       [category |-> Poor,         color |-> <<"F", "F", "A", "5", "0", "0">>],
       [category |-> VeryPoor,     color |-> <<"F", "F", "0", "0", "0", "0">>],
       [category |-> Severe,       color |-> <<"8", "0", "0", "0", "8", "0">>] >>

(***************************************************************************)
(* find_data_in_text: one search window                                    *)
(***************************************************************************)
\* the loop over aqi_colors without its break: the last category found stays
AirQualityNoBreak(search_text) ==
    LET hits == {k \in 1..Len(aqi_colors) : Contains(search_text, aqi_colors[k].category)}
    IN IF hits = {} THEN 0 ELSE CHOOSE k \in hits : \A j \in hits : j <= k

\* the loop over aqi_colors with its break: index of the category taken, 0 if none
AirQualityOf(search_text) ==
    LET hits == {k \in 1..Len(aqi_colors) : Contains(search_text, aqi_colors[k].category)}
    IN IF hits = {} THEN 0 ELSE CHOOSE k \in hits : \A j \in hits : k <= j

\* \b before or after position p (between s[p-1] and s[p])
WordBoundary(s, p) ==
    LET before == p > 1 /\ IsWordChar(s[p - 1])
        after  == p <= Len(s) /\ IsWordChar(s[p])
    IN before # after

DigitsAt(s, p, n) == p + n - 1 <= Len(s) /\ \A k \in p..(p + n - 1) : IsDigit(s[k])

\* \d{2,3} without the two \b
ReMatchNoBoundary(s, p) ==
    IF DigitsAt(s, p, 3) THEN 3
    ELSE IF DigitsAt(s, p, 2) THEN 2
    ELSE 0

\* length of the match of \b(\d{2,3})\b starting at position p, 0 if none:
\* the greedy quantifier tries three digits, then backtracks to two
ReMatchAt(s, p) ==
    IF ~WordBoundary(s, p) THEN 0
    ELSE IF DigitsAt(s, p, 3) /\ WordBoundary(s, p + 3) THEN 3
    ELSE IF DigitsAt(s, p, 2) /\ WordBoundary(s, p + 2) THEN 2
    ELSE 0

RECURSIVE ReFindall(_, _)
\* re.findall(r'\b(\d{2,3})\b', s) from position p: leftmost, non-overlapping
ReFindall(s, p) ==
    IF p > Len(s) THEN <<>>
    ELSE LET n == ReMatchAt(s, p)
         IN IF n > 0 THEN <<SubSeq(s, p, p + n - 1)>> \o ReFindall(s, p + n)
            ELSE ReFindall(s, p + 1)

MinIndex == 50
MaxIndex == 500

\* 50 <= int(value) <= 500
InRange(value) == MinIndex <= IntOf(value) /\ IntOf(value) <= MaxIndex

\* the loop over index_matches with its break: the value string, or None
IndexValueOf(search_text) ==
    LET index_matches == ReFindall(search_text, 1)
        ok == {k \in 1..Len(index_matches) : InRange(index_matches[k])}
    IN IF ok = {} THEN None
       ELSE index_matches[CHOOSE k \in ok : \A j \in ok : k <= j]

PM2_5 == <<"P", "M", "2", ".", "5">>
PM10 == <<"P", "M", "1", "0">>
O3 == <<"O", "3">>
NO2 == <<"N", "O", "2">>
SO2 == <<"S", "O", "2">>
CO == <<"C", "O">>

\* the six independent substring tests on the text with its spaces removed;
\* the labels the code appends carry subscript digits, written plainly here
PollutantsOf(search_text) ==
    LET pollutant_text == RemoveSpaces(search_text)
        Tag(token, label) == IF Contains(pollutant_text, token) THEN <<label>> ELSE <<>>
    IN Tag(PM2_5, "PM2.5") \o Tag(PM10, "PM10") \o Tag(O3, "O3")
       \o Tag(NO2, "NO2") \o Tag(SO2, "SO2") \o Tag(CO, "CO")

\* the data dict of a window; a key the code leaves out is None
DataDict(q, value, pollutants) ==
    [ Air_Quality |-> IF q = 0 THEN None ELSE aqi_colors[q].category,
      Color |-> IF q = 0 THEN None ELSE aqi_colors[q].color,
      Index_Value |-> value,
      Prominent_Pollutant |-> IF pollutants = <<>> THEN None ELSE pollutants ]

\* the body of the loop for one city line: the data dict built from its window
ExtractWindow(search_text) ==
    DataDict(AirQualityOf(search_text), IndexValueOf(search_text), PollutantsOf(search_text))

\* 'Air_Quality' in data
IsCompleteBandOnly(data) == data.Air_Quality # None

\* 'Air_Quality' in data and 'Index_Value' in data
IsComplete(data) == data.Air_Quality # None /\ data.Index_Value # None

\* city.lower() in line.lower()
Mentions(line, c) == Contains(Lower(line), Lower(c))

\* the stripped city line joined with up to three stripped following lines
SearchText(lines, i) ==
    LET after_lines == [j \in 1..(IF i + 3 <= Len(lines) THEN 3 ELSE Len(lines) - i)
                           |-> Strip(lines[i + j])]
    IN Join(<<Strip(lines[i])>> \o after_lines)

\* what the analysis of one window prints
Printed(i, search_text, data) == [line |-> i, search_text |-> search_text, data |-> data]

RECURSIVE ScanLines(_, _, _, _)
RECURSIVE ReturnOrGoOn(_, _, _, _, _)
\* the end of the loop body: complete data is returned, otherwise the loop goes on
ReturnOrGoOn(lines, c, i, data, log) ==
    IF IsComplete(data) THEN [result |-> data, log |-> log]
    ELSE ScanLines(lines, c, i + 1, log)

RECURSIVE ScanWindow(_, _, _, _, _, _)
\* a city line: the data of its window is printed
ScanWindow(lines, c, i, log, search_text, data) ==
    ReturnOrGoOn(lines, c, i, data, Append(log, Printed(i, search_text, data)))

\* the loop over enumerate(lines) from line i on; log holds what was printed
ScanLines(lines, c, i, log) ==
    IF i > Len(lines) THEN [result |-> None, log |-> log]
    ELSE IF ~Mentions(lines[i], c) THEN ScanLines(lines, c, i + 1, log)
    ELSE ScanWindow(lines, c, i, log, SearchText(lines, i), ExtractWindow(SearchText(lines, i)))

\* find_data_in_text(text, city): the value returned and what was printed
find_data_in_text(t, c) == ScanLines(Split(t), c, 1, <<>>)

(***************************************************************************)
(* Page texts the extraction engine is applied to                          *)
(***************************************************************************)
MaxBandTokens == 3
MaxNumberPieces == 4
MaxPollTokens == 3
MaxLines == 5

Delhi == <<"D", "e", "l", "h", "i">>

SeqsUpTo(S, n) == UNION {[1..k -> S] : k \in 0..n}

RECURSIVE Concat(_)
Concat(parts) == IF Len(parts) = 0 THEN <<>> ELSE Head(parts) \o Concat(Tail(parts))

RECURSIVE JoinLines(_)
JoinLines(parts) ==
    IF Len(parts) = 0 THEN <<>>
    ELSE IF Len(parts) = 1 THEN parts[1]
    ELSE parts[1] \o <<"\n">> \o JoinLines(Tail(parts))

BandNames == {aqi_colors[k].category : k \in 1..Len(aqi_colors)}

\* one line: the city, then band names and a number in any order
BandTokens == BandNames \cup {<<"1", "2", "0">>}
BandTexts == {Join(<<Delhi>> \o ts) : ts \in SeqsUpTo(BandTokens, MaxBandTokens)}

\* one line: the city, a band and an out-of-range number, then digits, letters
\* and separators run together
NumberPieces == {<<"1", "2", "0">>, <<"4", "5">>, <<"5", "0">>, <<"5", "0", "0">>, <<"1">>, <<"A">>, <<" ">>, <<".">>}
NumberTexts ==
    {Join(<<Delhi, Good, <<"4", "5">> >>) \o <<" ">> \o Concat(ps) : ps \in SeqsUpTo(NumberPieces, MaxNumberPieces)}

\* one line: a complete record, then pollutant tokens and other words
PollTokens == {PM2_5, PM10, O3, NO2, SO2, CO, <<"C">>, <<"C", "O", "L", "D">>}
PollTexts ==
    {Join(<<Delhi, Good, <<"1", "2", "0">>>> \o ts) : ts \in SeqsUpTo(PollTokens, MaxPollTokens)}

\* several lines, the city mentioned on some of them
LinePieces ==
    { <<"D", "e", "l", "h", "i", " ", "G", "o", "o", "d", " ", "P", "M", "1", "0">>,
      <<"D", "E", "L", "H", "I", " ", "P", "o", "o", "r", " ", "2", "0", "0", " ", "C", "O">>,
      <<"P", "u", "n", "e", " ", "S", "e", "v", "e", "r", "e">>,
      Delhi,
      <<" ", "1", "5", "0", " ", "S", "O", "2", " ">> }
LineTexts == {JoinLines(ls) : ls \in SeqsUpTo(LinePieces, MaxLines)}

Texts == BandTexts \cup NumberTexts \cup PollTexts \cup LineTexts

(***************************************************************************)
(* datetime: strptime, strftime, comparison and timedelta(days=1)          *)
(*                                                                         *)
(* A date string "YYYY-MM-DD" is the record of its three fields; a         *)
(* datetime is its proleptic Gregorian ordinal.                            *)
(***************************************************************************)
NumDays == 3

IsLeap(y) == (y % 4 = 0 /\ y % 100 # 0) \/ y % 400 = 0

DaysInMonth(y, m) ==
    IF m = 2 THEN (IF IsLeap(y) THEN 29 ELSE 28)
    ELSE IF m \in {4, 6, 9, 11} THEN 30 ELSE 31

RECURSIVE DaysBeforeMonth(_, _)
DaysBeforeMonth(y, m) ==
    IF m = 1 THEN 0 ELSE DaysBeforeMonth(y, m - 1) + DaysInMonth(y, m - 1)

DaysBeforeYear(y) == (y - 1) * 365 + (y - 1) \div 4 - (y - 1) \div 100 + (y - 1) \div 400

\* strptime(s, "%Y-%m-%d") succeeds
WellFormed(s) ==
    s # None /\ s.m \in 1..12 /\ s.d >= 1 /\ s.d <= DaysInMonth(s.y, s.m)

\* datetime.strptime(s, "%Y-%m-%d") of a well-formed string
Strptime(s) == DaysBeforeYear(s.y) + DaysBeforeMonth(s.y, s.m) + s.d

YearOf(date) ==
    CHOOSE y \in 2023..2025 : DaysBeforeYear(y) < date /\ date <= DaysBeforeYear(y + 1)

\* month of the n-th day of year y
MonthOf(y, n) ==
    CHOOSE m \in 1..12 :
        DaysBeforeMonth(y, m) < n /\ n <= DaysBeforeMonth(y, m) + DaysInMonth(y, m)

DateFields(y, m, n) == [y |-> y, m |-> m, d |-> n - DaysBeforeMonth(y, m)]

DayOfYear(y, n) == DateFields(y, MonthOf(y, n), n)

\* date.strftime('%Y-%m-%d')
Strftime(date) == DayOfYear(YearOf(date), date - DaysBeforeYear(YearOf(date)))

EightDigits(f) == f.y * 10000 + f.m * 100 + f.d

\* date.strftime("%Y%m%d"): the eight digits naming AQI_Bulletin_<date>.pdf
FileKey(date) == EightDigits(Strftime(date))

\* the first day requests are about: 2024-02-28, so that ranges cross the
\* leap day and the end of the month
FirstDay == Strptime([y |-> 2024, m |-> 2, d |-> 28])

Days == {FirstDay + k : k \in 0..(NumDays - 1)}

Keys == {FileKey(date) : date \in Days}

\* request fields: well-formed dates, a malformed one ("2024-02-30"), a missing one
DateStrings == {Strftime(date) : date \in Days} \cup {[y |-> 2024, m |-> 2, d |-> 30], None}

CityNames == {Delhi, <<>>}

(***************************************************************************)
(* Bulletin documents: what PyPDF2 makes of a completely transferred file  *)
(***************************************************************************)
PdfDocs == {"corrupt", "complete", "second_page", "no_match", "bad_page"}

Page(t) == [readable |-> TRUE, page_text |-> t]

\* a page whose extract_text() fails
BadPage == [readable |-> FALSE, page_text |-> <<>>]

\* reader.pages of a document; None when PdfReader cannot read it
Pages(doc) ==
    CASE doc = "complete" -> <<Page(<<"A", "Q", "I", " ", "B", "u", "l", "l", "e", "t", "i", "n", "\n", "D", "e", "l", "h", "i", " ", "M", "o", "d", "e", "r", "a", "t", "e", " ", "1", "5", "0", " ", "P", "M", "1", "0">>)>>
      [] doc = "second_page" -> <<Page(<<"P", "u", "n", "e", " ", "G", "o", "o", "d", " ", "6", "0">>), Page(<<"D", "e", "l", "h", "i", "\n", "P", "o", "o", "r", " ", "2", "5", "0">>)>>
      [] doc = "no_match" -> <<Page(<<"D", "e", "l", "h", "i", " ", "G", "o", "o", "d">>)>>
      [] doc = "bad_page" -> <<BadPage, Page(<<"D", "e", "l", "h", "i", " ", "S", "e", "v", "e", "r", "e", " ", "4", "2", "0">>)>>
      [] OTHER -> None

\* file contents: absent, a whole document, or the part of a document that
\* was written before the writing stopped
Absent == None
Truncated == [doc |-> "", whole |-> FALSE]
Whole(doc) == [doc |-> doc, whole |-> TRUE]
IsWhole(file) == file # Absent /\ file.whole

(***************************************************************************)
(* AQIBulletinDownloader                                                   *)
(***************************************************************************)
\* What the network and the disk do during one download_bulletin call:
\*   get1, get2  outcome of each requests.get: "200", "404", or "exc" for a
\*               requests.exceptions.RequestException
\*   ctype       the content-type header of the 200 response
\*   doc         the document the portal serves
\*   fail        how the writing of the file ends: "none", "RequestException"
\*               (raised while the body is iterated), "OSError" (raised by
\*               file.write), "OSErrorOpen" (raised by open)
NetBehaviours ==
    { [get1 |-> "exc", get2 |-> "none", ctype |-> "none", doc |-> "none", fail |-> "none"],
      [get1 |-> "404", get2 |-> "exc", ctype |-> "none", doc |-> "none", fail |-> "none"],
      [get1 |-> "404", get2 |-> "404", ctype |-> "none", doc |-> "none", fail |-> "none"] }
    \cup
    { [get1 |-> g[1], get2 |-> g[2], ctype |-> "text/html", doc |-> "none", fail |-> "none"] :
        g \in {<<"200", "none">>, <<"404", "200">>} }
    \cup
    { [get1 |-> g[1], get2 |-> g[2], ctype |-> ct, doc |-> d, fail |-> "none"] :
        g \in {<<"200", "none">>, <<"404", "200">>},
        ct \in {"application/pdf", "binary/octet-stream"},
        d \in PdfDocs }
    \cup
    { [get1 |-> g[1], get2 |-> g[2], ctype |-> "application/pdf", doc |-> "none", fail |-> f] :
        g \in {<<"200", "none">>, <<"404", "200">>},
        f \in {"RequestException", "OSError", "OSErrorOpen"} }

\* the while loop of get_date_range
DateList(start_date, end_date) ==
    [k \in 1..(IF end_date < start_date THEN 0 ELSE end_date - start_date + 1)
        |-> start_date + k - 1]

\* the loop without the check of the order
DatesUnchecked(start_date, end_date) ==
    [raised |-> FALSE, date_list |-> DateList(start_date, end_date)]

\* the check of the order of the parsed dates, then the loop
DatesChecked(start_date, end_date) ==
    IF end_date < start_date THEN [raised |-> TRUE, date_list |-> <<>>]
    ELSE [raised |-> FALSE, date_list |-> DateList(start_date, end_date)]

\* get_date_range of two well-formed strings: the list of datetimes, or the
\* ValueError raised when the end date is before the start date
get_date_range(start_date_str, end_date_str) ==
    DatesChecked(Strptime(start_date_str), Strptime(end_date_str))

\* the 200 response: the content-type check, then the writing of the file
Save(dir, key, net, gets) ==
    IF net.ctype \notin {"application/pdf", "binary/octet-stream"}
    THEN [dir |-> dir, ret |-> "False", gets |-> gets]
    ELSE IF net.fail = "OSErrorOpen"
    THEN [dir |-> dir, ret |-> "OSError", gets |-> gets]
    ELSE IF net.fail = "OSError"
    \* not a RequestException: the handler does not run, the error propagates
    THEN [dir |-> [dir EXCEPT ![key] = Truncated], ret |-> "OSError", gets |-> gets]
    ELSE IF net.fail = "RequestException"
    \* the handler unlinks the file
    THEN [dir |-> [dir EXCEPT ![key] = Absent], ret |-> "False", gets |-> gets]
    ELSE [dir |-> [dir EXCEPT ![key] = Whole(net.doc)], ret |-> "True", gets |-> gets]

\* the try block of download_bulletin: the two GET requests
Fetch(dir, key, net) ==
    IF net.get1 = "exc" THEN [dir |-> dir, ret |-> "False", gets |-> 1]
    ELSE IF net.get1 # "200" /\ net.get2 = "exc" THEN [dir |-> dir, ret |-> "False", gets |-> 2]
    ELSE IF net.get1 # "200" /\ net.get2 # "200" THEN [dir |-> dir, ret |-> "False", gets |-> 2]
    ELSE Save(dir, key, net, IF net.get1 = "200" THEN 1 ELSE 2)

\* download_bulletin without the early return
FetchAlways(dir, key, net) == Fetch(dir, key, net)

\* download_bulletin for the file named key: the early return when the file
\* exists, otherwise the try block
FetchOrCached(dir, key, net) ==
    IF dir[key] # Absent
    THEN [dir |-> dir, ret |-> "True", gets |-> 0]
    ELSE Fetch(dir, key, net)

\* download_bulletin(date): the directory afterwards, what the call returned
\* ("OSError" when it raised) and the GET requests it sent
download_bulletin(dir, date, net) == FetchOrCached(dir, FileKey(date), net)

(***************************************************************************)
(* AQIDataExtractor: process_pdf and process_date_range                    *)
(***************************************************************************)
RECURSIVE ScanPages(_, _, _)
RECURSIVE ReturnOrNextPage(_, _, _, _)
\* "if data: return data", otherwise the next page
ReturnOrNextPage(pages, k, c, data) ==
    IF data # None THEN data ELSE ScanPages(pages, k + 1, c)

\* the loop over reader.pages from page k on; a page whose text cannot be
\* extracted raises, and the except clause returns None
ScanPages(pages, k, c) ==
    IF k > Len(pages) THEN None
    ELSE IF ~pages[k].readable THEN None
    ELSE IF ~Contains(Lower(pages[k].page_text), Lower(c)) THEN ScanPages(pages, k + 1, c)
    ELSE ReturnOrNextPage(pages, k, c, find_data_in_text(pages[k].page_text, c).result)

\* process_pdf(pdf_path, city) on the file at pdf_path: a file PdfReader
\* cannot read (a truncated one, a corrupt one) raises and gives None
process_pdf(file, c) ==
    IF file = Absent THEN None
    ELSE IF ~IsWhole(file) THEN None
    ELSE IF Pages(file.doc) = None THEN None
    ELSE ScanPages(Pages(file.doc), 1, c)

\* data['Date'] = current_date.strftime('%Y-%m-%d')
Stamp(data, date) ==
    [ Date |-> Strftime(date), Air_Quality |-> data.Air_Quality, Color |-> data.Color,
      Index_Value |-> data.Index_Value, Prominent_Pollutant |-> data.Prominent_Pollutant ]

\* data_list.insert(0, data)
AppendPrepended(list, date, data) ==
    IF data # None THEN <<Stamp(data, date)>> \o list ELSE list

\* "if data:" the stamped record is appended to data_list
AppendStamped(list, date, data) ==
    IF data # None THEN Append(list, Stamp(data, date)) ELSE list

\* the loop body with a missing file discarding what was collected
ProcessFileOrAbort(list, date, file, c) ==
    IF file # Absent THEN AppendStamped(list, date, process_pdf(file, c)) ELSE <<>>

\* the body of the while loop for the file at pdf_path
ProcessFile(list, date, file, c) ==
    IF file # Absent THEN AppendStamped(list, date, process_pdf(file, c)) ELSE list

\* one iteration of the while loop of process_date_range: data_list afterwards
process_date(list, date, dir, c) == ProcessFile(list, date, dir[FileKey(date)], c)

(***************************************************************************)
(* get_aqi_data: the request handler, one action per step                  *)
(***************************************************************************)
NoCall == [key |-> 0, ret |-> "none", gets |-> 0]

NoResponse == [status |-> 0, error |-> "", aqi_data |-> <<>>]

Error(status, message) == [status |-> status, error |-> message, aqi_data |-> <<>>]

\* the request arrives and is validated (lines 22-35)
Receive(start_date, end_date, c) ==
    /\ pc = "idle"
    /\ request' = [start_date |-> start_date, end_date |-> end_date, city |-> c]
    /\ IF start_date = None \/ end_date = None \/ c = <<>>
       THEN /\ response' = Error(400, "start_date, end_date, and city are required")
            /\ pc' = "answered"
       ELSE IF ~WellFormed(start_date) \/ ~WellFormed(end_date)
       THEN /\ response' = Error(400, "Invalid date format. Use YYYY-MM-DD")
            /\ pc' = "answered"
       ELSE /\ response' = NoResponse
            /\ pc' = "download_range"
    /\ UNCHANGED <<output_dir, dates, dl_i, successful, failed, dl_last, current_date,
                   end_dt, data_list, scanned, textVars>>

\* what download_range does with the outcome r of get_date_range
Ranged(r) ==
    IF r.raised
    THEN /\ response' = Error(500, "End date must be after start date")
         /\ pc' = "answered"
         /\ UNCHANGED <<dates, dl_i>>
    ELSE /\ dates' = r.date_list
         /\ dl_i' = 1
         /\ pc' = "download_bulletin"
         /\ UNCHANGED response

\* download_range up to its loop: get_date_range; its ValueError reaches the
\* handler's except clause
DownloadRange ==
    /\ pc = "download_range"
    /\ Ranged(get_date_range(request.start_date, request.end_date))
    /\ UNCHANGED <<request, output_dir, successful, failed, dl_last, current_date,
                   end_dt, data_list, scanned, textVars>>

\* what download_range and the handler do with the outcome r of the call: an
\* OSError reaches the handler's except clause, a return value is counted
Called(r) ==
    /\ output_dir' = r.dir
    /\ dl_last' = [key |-> FileKey(dates[dl_i]), ret |-> r.ret, gets |-> r.gets]
    /\ IF r.ret = "OSError"
       THEN /\ response' = Error(500, "OSError")
            /\ pc' = "answered"
            /\ UNCHANGED <<dl_i, successful, failed>>
       ELSE /\ dl_i' = dl_i + 1
            /\ successful' = IF r.ret = "True" THEN successful + 1 ELSE successful
            /\ failed' = IF r.ret = "True" THEN failed ELSE failed + 1
            /\ UNCHANGED <<response, pc>>

\* one iteration of the loop of download_range: a download_bulletin call
DownloadBulletin ==
    /\ pc = "download_bulletin"
    /\ dl_i <= Len(dates)
    /\ \E net \in NetBehaviours : Called(download_bulletin(output_dir, dates[dl_i], net))
    /\ UNCHANGED <<request, dates, current_date, end_dt, data_list, scanned, textVars>>

\* download_range returns; process_date_range parses its dates (lines 121-123)
ProcessDateRange ==
    /\ pc = "download_bulletin"
    /\ dl_i > Len(dates)
    /\ pc' = "process_date_range"
    /\ data_list' = <<>>
    /\ current_date' = Strptime(request.start_date)
    /\ end_dt' = Strptime(request.end_date)
    /\ dl_last' = NoCall
    /\ UNCHANGED <<request, response, output_dir, dates, dl_i, successful, failed,
                   scanned, textVars>>

\* one iteration of the while loop of process_date_range
ProcessDate ==
    /\ pc = "process_date_range"
    /\ current_date <= end_dt
    /\ data_list' = process_date(data_list, current_date, output_dir, request.city)
    /\ scanned' = IF output_dir[FileKey(current_date)] # Absent
                  THEN scanned \cup {FileKey(current_date)} ELSE scanned
    /\ current_date' = current_date + 1
    /\ UNCHANGED <<pc, request, response, output_dir, dates, dl_i, successful, failed,
                   dl_last, end_dt, textVars>>

\* process_date_range returns and the handler answers (lines 49-53)
Respond ==
    /\ pc = "process_date_range"
    /\ current_date > end_dt
    /\ response' = IF data_list = <<>> THEN Error(404, "No data found")
                   ELSE [status |-> 200, error |-> "", aqi_data |-> data_list]
    /\ pc' = "answered"
    /\ UNCHANGED <<request, output_dir, dates, dl_i, successful, failed, dl_last,
                   current_date, end_dt, data_list, scanned, textVars>>

\* the response is sent: the handler's objects and locals are gone, the cache
\* directory stays
Return ==
    /\ pc = "answered"
    /\ pc' = "idle"
    /\ request' = [start_date |-> None, end_date |-> None, city |-> <<>>]
    /\ response' = NoResponse
    /\ dates' = <<>>
    /\ dl_i' = 0
    /\ successful' = 0
    /\ failed' = 0
    /\ dl_last' = NoCall
    /\ current_date' = 0
    /\ end_dt' = 0
    /\ data_list' = <<>>
    /\ scanned' = {}
    /\ UNCHANGED <<output_dir, textVars>>

TextOff ==
    /\ text = <<>>
    /\ city = Delhi
    /\ fd_pc = "off"
    /\ fd_result = None
    /\ fd_log = <<>>

PipeIdle ==
    /\ pc = "idle"
    /\ request = [start_date |-> None, end_date |-> None, city |-> <<>>]
    /\ response = NoResponse
    /\ output_dir = [k \in Keys |-> Absent]
    /\ dates = <<>>
    /\ dl_i = 0
    /\ successful = 0
    /\ failed = 0
    /\ dl_last = NoCall
    /\ current_date = 0
    /\ end_dt = 0
    /\ data_list = <<>>
    /\ scanned = {}

\* the service starts with an empty cache directory
Init == PipeIdle /\ TextOff

Next ==
    \/ \E start_date \in DateStrings, end_date \in DateStrings, c \in CityNames :
           Receive(start_date, end_date, c)
    \/ DownloadRange
    \/ DownloadBulletin
    \/ ProcessDateRange
    \/ ProcessDate
    \/ Respond
    \/ Return

Spec == Init /\ [][Next]_vars

(***************************************************************************)
(* find_data_in_text applied to one page text                              *)
(***************************************************************************)
Returned(r) ==
    /\ fd_result' = r.result
    /\ fd_log' = r.log

FindDataInText ==
    /\ fd_pc = "ready"
    /\ Returned(find_data_in_text(text, city))
    /\ fd_pc' = "done"
    /\ UNCHANGED <<text, city, pipeVars>>

InitText ==
    /\ text \in Texts
    /\ city = Delhi
    /\ fd_pc = "ready"
    /\ fd_result = None
    /\ fd_log = <<>>
    /\ PipeIdle

NextText == FindDataInText

SpecText == InitText /\ [][NextText]_vars

(***************************************************************************)
(* Properties of the range orchestrator and of the service                 *)
(***************************************************************************)
\* 'YYYY-MM-DD' strings compare as their fields do, most significant first
DateBefore(a, b) ==
    \/ a.y < b.y
    \/ a.y = b.y /\ a.m < b.m
    \/ a.y = b.y /\ a.m = b.m /\ a.d < b.d

RangeOf(req) == Strptime(req.start_date)..Strptime(req.end_date)

\* C1: during and after process_date_range the accumulated records are
\* strictly ascending by date, every record is stamped with a date of the
\* range, and so there are at most as many records as days in the range.
C1_StrictlyAscending ==
    /\ \A i \in 1..Len(data_list) : \A j \in 1..Len(data_list) :
           i < j => DateBefore(data_list[i].Date, data_list[j].Date)
    /\ data_list # <<>> =>
           /\ \A i \in 1..Len(data_list) :
                  \E date \in RangeOf(request) : data_list[i].Date = Strftime(date)
           /\ Len(data_list) <= Strptime(request.end_date) - Strptime(request.start_date) + 1

\* a range over the end of February answered with a record for each of its days
C1_Witness ==
    /\ pc = "answered"
    /\ response.status = 200
    /\ Len(response.aqi_data) = 3
    /\ response.aqi_data[1].Date = [y |-> 2024, m |-> 2, d |-> 28]
    /\ response.aqi_data[3].Date = [y |-> 2024, m |-> 3, d |-> 1]

\* the document in this file is present and readable, and a page of it yields
\* a complete record before any page fails to decode
Yields(file, c) ==
    /\ file # Absent
    /\ IsWhole(file)
    /\ Pages(file.doc) # None
    /\ \E k \in 1..Len(Pages(file.doc)) :
           /\ \A j \in 1..k : Pages(file.doc)[j].readable
           /\ find_data_in_text(Pages(file.doc)[k].page_text, c).result # None

Processing == pc = "process_date_range" \/ (pc = "answered" /\ response.status \in {200, 404})

\* C2: for every date of the range that process_date_range has gone past, the
\* output holds a record stamped with that date exactly when its document is
\* present, readable and yields a complete record; whatever the other dates'
\* documents are, and the range is always answered with data or "no data".
C2_PerDateIndependent ==
    Processing =>
        \A date \in RangeOf(request) :
            date < current_date =>
                ((\E i \in 1..Len(data_list) : data_list[i].Date = Strftime(date))
                    <=> Yields(output_dir[FileKey(date)], request.city))

\* documents for day 1 and day 3 only, both complete: two records, in order
C2_Witness ==
    /\ pc = "answered"
    /\ response.status = 200
    /\ RangeOf(request) = FirstDay..(FirstDay + 2)
    /\ output_dir[FileKey(FirstDay + 1)] = Absent
    /\ Len(response.aqi_data) = 2
    /\ response.aqi_data[1].Date = Strftime(FirstDay)
    /\ response.aqi_data[2].Date = Strftime(FirstDay + 2)

Reversed(req) ==
    /\ req.city # <<>>
    /\ WellFormed(req.start_date)
    /\ WellFormed(req.end_date)
    /\ Strptime(req.end_date) < Strptime(req.start_date)

\* C3: a request with well-formed dates whose end date is before its start
\* date is answered with the error raised by the validation of the range
\* (never with data or "no data"), and until it is answered no download has
\* been attempted and no document has been scanned for it.
C3_ReversedRangeRejected ==
    Reversed(request) =>
        /\ pc \in {"download_range", "answered"}
        /\ dl_last = NoCall
        /\ dates = <<>>
        /\ scanned = {}
        /\ data_list = <<>>
        /\ pc = "answered" =>
               /\ response.error = "End date must be after start date"
               /\ response.status \notin {0, 200, 404}

\* a reversed request answered while the cache holds a document of its dates
C3_Witness ==
    /\ Reversed(request)
    /\ pc = "answered"
    /\ response.error = "End date must be after start date"
    /\ \E k \in Keys : IsWhole(output_dir[k])

\* C4: a file of the cache directory that exists between download_bulletin
\* calls holds a completely transferred document.
C4_NoTruncatedFile ==
    \A k \in Keys : output_dir[k] # Absent => IsWhole(output_dir[k])

AtCall == pc = "download_bulletin" /\ dl_i <= Len(dates)

\* C5: a download_bulletin call that fetches a document leaves the whole
\* document in the cache; a whole document in the cache is never changed
\* again; and a call for a date whose whole document is cached returns True
\* and sends no GET request.
C5_Idempotent ==
    [][ /\ (AtCall /\ dl_last'.ret = "True" /\ dl_last'.gets > 0)
            => IsWhole(output_dir'[dl_last'.key])
        /\ \A k \in Keys : IsWhole(output_dir[k]) => output_dir'[k] = output_dir[k]
        /\ (AtCall /\ IsWhole(output_dir[FileKey(dates[dl_i])]))
            => (dl_last'.ret = "True" /\ dl_last'.gets = 0) ]_vars

\* a call answered from the cache, for a document a previous run fetched
\* (the cache starts empty, so every whole document in it was fetched)
C5_Witness ==
    /\ dl_last.ret = "True"
    /\ dl_last.gets = 0
    /\ IsWhole(output_dir[dl_last.key])

(***************************************************************************)
(* Properties of the text extraction engine                                *)
(***************************************************************************)
OccursAt(s, sub, p) == p >= 1 /\ p + Len(sub) - 1 <= Len(s) /\ SubSeq(s, p, p + Len(sub) - 1) = sub

\* the band names a text mentions: a name counts where it is not part of a
\* longer band name ("Poor" inside "Very Poor" is not a mention of Poor)
BandsMentioned(s) ==
    { b \in BandNames :
        \E p \in 1..Len(s) :
            /\ OccursAt(s, b, p)
            /\ ~\E b2 \in BandNames : \E p2 \in 1..Len(s) :
                   /\ Len(b2) > Len(b)
                   /\ OccursAt(s, b2, p2)
                   /\ p2 <= p
                   /\ p + Len(b) <= p2 + Len(b2) }

\* the maximal digit runs of a text, as <<first, last>> positions
DigitRuns(s) ==
    { r \in (1..Len(s)) \X (1..Len(s)) :
        /\ r[1] <= r[2]
        /\ \A k \in r[1]..r[2] : IsDigit(s[k])
        /\ (r[1] = 1 \/ ~IsDigit(s[r[1] - 1]))
        /\ (r[2] = Len(s) \/ ~IsDigit(s[r[2] + 1])) }

RunValue(s, r) == SubSeq(s, r[1], r[2])

Candidate(s, r) ==
    /\ r[2] - r[1] + 1 \in {2, 3}
    /\ IntOf(RunValue(s, r)) >= 50
    /\ IntOf(RunValue(s, r)) <= 500

\* the run stands alone: a space or an end of the text on either side
Standalone(s, r) ==
    /\ (r[1] = 1 \/ s[r[1] - 1] = " ")
    /\ (r[2] = Len(s) \/ s[r[2] + 1] = " ")

\* the run is a word of its own: no letter or underscore on either side
WholeWord(s, r) ==
    /\ (r[1] = 1 \/ ~IsWordChar(s[r[1] - 1]))
    /\ (r[2] = Len(s) \/ ~IsWordChar(s[r[2] + 1]))

\* the value of the first run of the set, None for the empty set
FirstValue(s, runs) ==
    IF runs = {} THEN None
    ELSE RunValue(s, CHOOSE r \in runs : \A r2 \in runs : r[1] <= r2[1])

Done == fd_pc = "done"

\* C6: a one-line text whose window mentions exactly one band and holds
\* exactly one number, in range and standing alone, gives a record with that
\* band and that number.
C6_OneBandOneNumber ==
    (Done /\ Len(Split(text)) = 1 /\ Mentions(text, city)) =>
        \A b \in BandNames : \A r \in DigitRuns(text) :
            (/\ BandsMentioned(text) = {b}
             /\ DigitRuns(text) = {r}
             /\ Candidate(text, r)
             /\ Standalone(text, r))
            => /\ fd_result # None
               /\ fd_result.Air_Quality = b
               /\ fd_result.Index_Value = RunValue(text, r)

\* C7 as stated: the index value of every window analysed is the first
\* maximal digit run of length 2 to 3 whose value lies in [50, 500].
C7_FirstDigitRun ==
    Done => \A k \in 1..Len(fd_log) :
        fd_log[k].data.Index_Value =
            FirstValue(fd_log[k].search_text,
                       {r \in DigitRuns(fd_log[k].search_text) : Candidate(fd_log[k].search_text, r)})

\* C7 as amended: the index value of every window analysed is the first
\* maximal digit run of length 2 to 3 that is a word of its own (no letter,
\* digit or underscore next to it) and whose value lies in [50, 500]; runs
\* out of range, and runs next to a letter, are passed over.
C7_FirstWholeWordRun ==
    Done => \A k \in 1..Len(fd_log) :
        fd_log[k].data.Index_Value =
            FirstValue(fd_log[k].search_text,
                       {r \in DigitRuns(fd_log[k].search_text) :
                            Candidate(fd_log[k].search_text, r) /\ WholeWord(fd_log[k].search_text, r)})

\* a window where an out-of-range number and then a run next to a letter are
\* passed over, and the in-range number after them is taken
C7_Witness ==
    /\ Done
    /\ fd_result # None
    /\ Contains(text, <<" ", "4", "5", " ", "A", "1", "2", "0", " ", "5", "0">>)
    /\ fd_result.Index_Value = <<"5", "0">>

\* "CO" is a token of its own in s
BareCO(s) ==
    \E p \in 1..Len(s) :
        /\ OccursAt(s, CO, p)
        /\ (p = 1 \/ ~IsWordChar(s[p - 1]))
        /\ (p + 2 > Len(s) \/ ~IsWordChar(s[p + 2]))

ListsCO(data) ==
    /\ data.Prominent_Pollutant # None
    /\ \E k \in 1..Len(data.Prominent_Pollutant) : data.Prominent_Pollutant[k] = "CO"

\* C8: the record of a window that contains "SO2" and "NO2" but not the token
\* "CO" does not list "CO".
C8_NoStrayCO ==
    (Done /\ fd_result # None) =>
        LET w == fd_log[Len(fd_log)].search_text
        IN (Contains(w, SO2) /\ Contains(w, NO2) /\ ~BareCO(w)) => ~ListsCO(fd_result)

\* the lines of the text that mention the city, in document order
MentionLines(t, c) == {i \in 1..Len(Split(t)) : Mentions(Split(t)[i], c)}

Nth(S, n) == CHOOSE i \in S : Cardinality({j \in S : j < i}) = n - 1

BandOnly(w) == AirQualityOf(w) # 0 /\ IndexValueOf(w) = None

BandAndIndex(w) == AirQualityOf(w) # 0 /\ IndexValueOf(w) # None

FirstIncompleteSecondComplete(t, c) ==
    /\ Cardinality(MentionLines(t, c)) >= 2
    /\ BandOnly(SearchText(Split(t), Nth(MentionLines(t, c), 1)))
    /\ BandAndIndex(SearchText(Split(t), Nth(MentionLines(t, c), 2)))

\* C9: when the window of the first city line gives a band but no index and
\* the window of the second city line gives both, the record returned is the
\* data of the second window, field by field, and exactly two windows were
\* analysed: the first and the second.
C9_SecondWindowWins ==
    (Done /\ FirstIncompleteSecondComplete(text, city)) =>
        /\ fd_result = ExtractWindow(SearchText(Split(text), Nth(MentionLines(text, city), 2)))
        /\ Len(fd_log) = 2
        /\ fd_log[1].line = Nth(MentionLines(text, city), 1)
        /\ fd_log[2].line = Nth(MentionLines(text, city), 2)

\* the first window holds a pollutant the second lacks, and a third city line
\* follows the winning one
C9_Witness ==
    /\ Done
    /\ FirstIncompleteSecondComplete(text, city)
    /\ Cardinality(MentionLines(text, city)) >= 3
    /\ fd_log[1].data.Prominent_Pollutant # None
    /\ fd_result.Prominent_Pollutant # fd_log[1].data.Prominent_Pollutant
    /\ fd_result.Air_Quality # fd_log[1].data.Air_Quality

DeclaredOrder == <<Good, Satisfactory, Moderate, Poor, VeryPoor, Severe>>

\* C10: the band of every window analysed is the earliest name of the
\* declared order that occurs in the window as a substring, and no band when
\* none occurs.
C10_FirstBandInOrder ==
    Done => \A k \in 1..Len(fd_log) :
        /\ fd_log[k].data.Air_Quality = None
               <=> \A n \in 1..Len(DeclaredOrder) : ~Contains(fd_log[k].search_text, DeclaredOrder[n])
        /\ \A n \in 1..Len(DeclaredOrder) :
               fd_log[k].data.Air_Quality = DeclaredOrder[n]
                   <=> /\ Contains(fd_log[k].search_text, DeclaredOrder[n])
                       /\ \A n2 \in 1..(n - 1) : ~Contains(fd_log[k].search_text, DeclaredOrder[n2])

\* a window where a later name of the order comes first in the text
C10_Witness ==
    /\ Done
    /\ fd_result # None
    /\ Contains(text, <<"S", "e", "v", "e", "r", "e", " ", "M", "o", "d", "e", "r", "a", "t", "e">>)
    /\ fd_result.Air_Quality = Moderate

====
